---------------------------- MODULE Spec2Model ----------------------------
(***************************************************************************)
(* WBTC price comparison dashboard (streamlit_app.py).                     *)
(*                                                                         *)
(* The state is the two warehouse tables, the two st.cache_data caches     *)
(* (get_min_max_date and run_query, ttl=600) and the outcome of the script *)
(* run in progress.  One script run is two steps: the range discovery      *)
(* (lines 32-45) and the rest of the script (lines 48-199), which is one   *)
(* of: the validation halt, a run without the button, or the button        *)
(* handler.  Time is counted in ticks, TicksPerSecond to the second, since *)
(* a warehouse TIMESTAMP is finer than the whole seconds TIMESTAMP_DIFF    *)
(* returns.  The clock of the caches is not kept: a lookup finds its entry *)
(* either younger or older than the ttl.  The tables do not change while   *)
(* the dashboard runs.                                                     *)
(***************************************************************************)
EXTENDS Integers, FiniteSets

VARIABLES
    comparison,     \* table wbtc_usdt_comparison: rows (platform, wbtc_price, fill_time)
    binance,        \* table binance.wbtc_usdt_swap: rows (price, time)
    rangeCache,     \* st.cache_data entry of get_min_max_date(), fresh or past its ttl
    queryCache,     \* st.cache_data entries of run_query(query), keyed by the dates in the query text
    pc,             \* "rerun": no run in progress; "inputs": range discovered, widgets next
    halted,         \* history: an earlier run halted on an empty-result warning
    shown,          \* the latest run that got to the widgets put the button on the page
    min_date,
    max_date,
    start_date,     \* the two date inputs' values, kept by the session between runs
    end_date,
    button,         \* st.button('Generate Graph') in the current run
    queries,        \* warehouse queries issued by the current run
    message,        \* what the current run reported
    data,
    filtered_data,
    df_plot,
    df_pivot,
    chart,          \* st.altair_chart was reached
    raw             \* the "Show Raw Data" expander was reached

vars == <<comparison, binance, rangeCache, queryCache, pc, halted, shown,
          min_date, max_date, start_date, end_date, button, queries, message,
          data, filtered_data, df_plot, df_pivot, chart, raw>>

-----------------------------------------------------------------------------
(* Bounds and units *)

\* Resolution of the model's clock (a warehouse TIMESTAMP counts microseconds).
TicksPerSecond == 2

\* Most rows a table holds.
MaxRows == 2

\* ON ABS(TIMESTAMP_DIFF(cd.fill_time, bd.time, SECOND)) <= 1800
Tolerance == 1800

TicksPerDay == 24 * 60 * 60 * TicksPerSecond

\* SQL NULL / pandas NaN in a numeric or time column, and in the platform column.
NULL == -1

NULL_PLATFORM == "NULL"

NoEntry == [cached |-> FALSE]

\* The instants the tables' rows are drawn from: midnight of day 0, a tick
\* after it, a tick more than the tolerance after it, and midnight of day 1.
Instants == {0, 1, Tolerance * TicksPerSecond + 1, TicksPerDay}

Midnights == {0, TicksPerDay}

\* The calendar dates of those instants, and the keys of run_query's cache.
Dates == {t \div TicksPerDay : t \in Instants \cup Midnights}

Keys == Dates \X Dates

BoundedSubsets(S) == {T \in SUBSET S : Cardinality(T) <= MaxRows}

\* Tables with full prices, several platforms and close instants.
TimedTables ==
    [comparison : BoundedSubsets([platform : {"Cowswap", "Hashflow", "Binance"},
                                  wbtc_price : {50010},
                                  fill_time : Instants]),
     binance : BoundedSubsets([price : {50000}, time : Instants])]

\* Tables with missing prices, platforms and times.
SparseTables ==
    [comparison : BoundedSubsets([platform : {"Cowswap", NULL_PLATFORM},
                                  wbtc_price : {NULL, 50010},
                                  fill_time : Midnights \cup {NULL}]),
     binance : BoundedSubsets([price : {NULL, 50000},
                               time : Midnights \cup {NULL}])]

-----------------------------------------------------------------------------
(* The warehouse's functions and the two queries *)

Abs(x) == IF x < 0 THEN -x ELSE x

\* TIMESTAMP('YYYY-MM-DD'): midnight UTC of the date.
TIMESTAMP(d) == d * TicksPerDay

\* TIMESTAMP_DIFF(a, b, SECOND): the whole seconds of a - b.
TIMESTAMP_DIFF(a, b) ==
    IF a >= b THEN (a - b) \div TicksPerSecond
              ELSE -((b - a) \div TicksPerSecond)

\* Timestamp.date(), Series.dt.date: the UTC calendar date.
DateOf(t) == t \div TicksPerDay

Min(S) == CHOOSE x \in S : \A y \in S : x <= y

Max(S) == CHOOSE x \in S : \A y \in S : x >= y

FillTimes == {r.fill_time : r \in comparison} \ {NULL}

\* Variant: the window runs through the end of end_date.
Between_wholeDay(t, s, e) ==
    t # NULL /\ TIMESTAMP(s) <= t /\ t <= TIMESTAMP(e + 1)

\* fill_time BETWEEN TIMESTAMP(start) AND TIMESTAMP(end)
Between(t, s, e) == t # NULL /\ TIMESTAMP(s) <= t /\ t <= TIMESTAMP(e)

comparison_data(s, e) == {r \in comparison : Between(r.fill_time, s, e)}

binance_data(s, e) == {r \in binance : Between(r.time, s, e)}

\* The join of closest_binance, before ranking.
Joined(s, e) ==
    {[platform |-> cd.platform,
      fill_time |-> cd.fill_time,
      wbtc_price |-> cd.wbtc_price,
      wbtc_price_from_binance |-> bd.price,
      binance_time |-> bd.time] :
        <<cd, bd>> \in {p \in comparison_data(s, e) \X binance_data(s, e) :
            Abs(TIMESTAMP_DIFF(p[1].fill_time, p[2].time)) <= Tolerance}}

RankKey(j) == Abs(TIMESTAMP_DIFF(j.fill_time, j.binance_time))

\* Variant: PARTITION BY cd.platform, cd.fill_time
Partition_byPlatform(J, j) ==
    {k \in J : k.fill_time = j.fill_time /\ k.platform = j.platform}

\* PARTITION BY cd.fill_time
Partition(J, j) == {k \in J : k.fill_time = j.fill_time}

\* The rows ROW_NUMBER() may number 1 in j's partition: the order among rows
\* of equal key is the engine's choice.
MayRankFirst(J, j) == \A k \in Partition(J, j) : RankKey(j) <= RankKey(k)

\* The results the aligned query may return: in every partition exactly one
\* row has time_rank = 1.  A result is the set of its rows: ORDER BY fill_time
\* fixes their order, as no two rows of a result share a fill_time.
AlignedResults(s, e) ==
    LET J == Joined(s, e)
    IN  {R \in SUBSET J :
            /\ \A r \in R : MayRankFirst(J, r)
            /\ \A j \in J : Cardinality(R \cap Partition(J, j)) = 1}

-----------------------------------------------------------------------------
(* The button handler's pandas steps *)

\* mask = (fill_time.dt.date >= start_date) & (fill_time.dt.date <= end_date)
Mask(r, s, e) == DateOf(r.fill_time) >= s /\ DateOf(r.fill_time) <= e

FilterData(d, s, e) == {r \in d : Mask(r, s, e)}

\* A tidy row carries the frame and the aligned row it was copied from, as
\* pandas keeps rows of equal content apart by position.
df_platforms(fd) ==
    {[time |-> r.fill_time, price |-> r.wbtc_price, platform |-> r.platform,
      index |-> <<"df_platforms", r>>] : r \in fd}

df_binance(fd) ==
    {[time |-> r.fill_time, price |-> r.wbtc_price_from_binance,
      platform |-> "Binance", index |-> <<"df_binance", r>>] : r \in fd}

NoNull(r) ==
    /\ r.fill_time # NULL
    /\ r.wbtc_price # NULL
    /\ r.platform # NULL_PLATFORM
    /\ r.wbtc_price_from_binance # NULL

\* Variant: both tidy rows of an aligned row go when any of its fields is missing.
DropNa_wholeRow(df) == {x \in df : NoNull(x.index[2])}

\* df_plot.dropna(subset=['time', 'price', 'platform'])
DropNa(df) ==
    {x \in df : x.time # NULL /\ x.price # NULL /\ x.platform # NULL_PLATFORM}

platform_order == {"Binance", "Cowswap", "Hashflow", "UniswapX"}

\* pd.Categorical(..., categories=platform_order): any other label becomes NaN.
Categorical(df) ==
    {[x EXCEPT !.platform = IF @ \in platform_order THEN @ ELSE NULL_PLATFORM] :
        x \in df}

\* pd.concat([df_platforms, df_binance]), dropna, Categorical.  The frame is
\* the set of its rows; sort_values('time') moves rows and changes none.
Reshape(fd) == Categorical(DropNa(df_platforms(fd) \cup df_binance(fd)))

\* DataFrame.pivot raises ValueError on a repeated (index, columns) pair.
PivotRaises(df) ==
    \E x \in df, y \in df : x # y /\ x.time = y.time /\ x.platform = y.platform

Pivot(df) ==
    {[time |-> t,
      values |-> [p \in platform_order |->
                    IF \E x \in df : x.time = t /\ x.platform = p
                    THEN (CHOOSE x \in df : x.time = t /\ x.platform = p).price
                    ELSE NULL]] :
        t \in {x.time : x \in df}}

\* Lines 109-199 for the frame run_query returned.
Handler(d, s, e) ==
    LET fd == FilterData(d, s, e)
        dp == Reshape(fd)
        halt(m, f) == [message |-> m, filtered_data |-> f, df_plot |-> {},
                       df_pivot |-> {}, chart |-> FALSE, raw |-> FALSE]
    IN  IF d = {} THEN halt("No data found", {})
        ELSE IF fd = {} THEN halt("No data available", {})
        ELSE IF PivotRaises(dp)
             THEN [halt("ValueError", fd) EXCEPT !.df_plot = dp]
        ELSE [message |-> "none", filtered_data |-> fd, df_plot |-> dp,
              df_pivot |-> Pivot(dp), chart |-> TRUE, raw |-> TRUE]

-----------------------------------------------------------------------------
(* The script *)

Init ==
    /\ \E t \in TimedTables \cup SparseTables :
          comparison = t.comparison /\ binance = t.binance
    /\ rangeCache = NoEntry
    /\ queryCache = [k \in Keys |-> NoEntry]
    /\ pc = "rerun"
    /\ halted = FALSE
    /\ shown = FALSE
    /\ min_date = NULL
    /\ max_date = NULL
    /\ start_date = NULL
    /\ end_date = NULL
    /\ button = FALSE
    /\ queries = {}
    /\ message = "none"
    /\ data = {}
    /\ filtered_data = {}
    /\ df_plot = {}
    /\ df_pivot = {}
    /\ chart = FALSE
    /\ raw = FALSE

Tables == <<comparison, binance>>

Caches == <<rangeCache, queryCache>>

Range == <<min_date, max_date>>

Frames == <<data, filtered_data, df_plot, df_pivot>>

\* A rerun starts with nothing reported and no frame built; the session keeps
\* the widgets' values.
Fresh ==
    /\ halted' = (halted \/ message \in {"No data found", "No data available"})
    /\ button' = FALSE
    /\ data' = {}
    /\ filtered_data' = {}
    /\ df_plot' = {}
    /\ df_pivot' = {}
    /\ chart' = FALSE
    /\ raw' = FALSE
    /\ UNCHANGED <<start_date, end_date, shown>>

\* get_min_max_date() answered by an entry younger than ttl=600.
GetMinMaxDateCached ==
    /\ pc = "rerun"
    /\ rangeCache # NoEntry
    /\ Fresh
    /\ message' = "none"
    /\ min_date' = rangeCache.min_date
    /\ max_date' = rangeCache.max_date
    /\ queries' = {}
    /\ pc' = "inputs"
    /\ UNCHANGED <<Tables, Caches>>

\* get_min_max_date() finds no entry, or one older than ttl=600, runs the
\* MIN/MAX query and caches the two dates.
GetMinMaxDateQuery ==
    /\ pc = "rerun"
    /\ FillTimes # {}
    /\ Fresh
    /\ message' = "none"
    /\ min_date' = DateOf(Min(FillTimes))
    /\ max_date' = DateOf(Max(FillTimes))
    /\ rangeCache' = [cached |-> TRUE, min_date |-> min_date', max_date |-> max_date']
    /\ queries' = {"range"}
    /\ pc' = "inputs"
    /\ UNCHANGED <<Tables, queryCache>>

\* On a table without a fill_time MIN and MAX are NULL and NaT.date() raises:
\* the run ends there and nothing is cached.
GetMinMaxDateRaises ==
    /\ pc = "rerun"
    /\ FillTimes = {}
    /\ Fresh
    /\ message' = "ValueError"
    /\ queries' = {"range"}
    /\ UNCHANGED <<Tables, Caches, Range, pc>>

\* st.date_input(min_value=min_date, max_value=max_date)
DateInput == min_date .. max_date

\* What the widgets return in this run.  The first run of the session has the
\* defaults and no button press; a later run follows one interaction: the
\* button (if the run before showed it), one of the two date inputs, or a
\* plain rerun.
Widgets(s, e, b) ==
    /\ s \in DateInput
    /\ e \in DateInput
    /\ IF start_date = NULL
       THEN s = min_date /\ e = max_date /\ ~b
       ELSE \/ s = start_date /\ e = end_date /\ (b => shown)
            \/ ~b /\ (s = start_date \/ e = end_date)

\* Variant: the comparison the wrong way round.
StartAfterEnd_swapped(s, e) == e > s

\* if start_date > end_date
StartAfterEnd(s, e) == s > e

\* st.error(...); st.stop()
ValidationHalt(s, e) ==
    /\ pc = "inputs"
    /\ Widgets(s, e, FALSE)
    /\ StartAfterEnd(s, e)
    /\ start_date' = s
    /\ end_date' = e
    /\ shown' = FALSE
    /\ message' = "Start date must be before end date"
    /\ pc' = "rerun"
    /\ UNCHANGED <<Tables, Caches, Range, Frames, halted, button, queries, chart, raw>>

\* st.button('Generate Graph') is False: the script ends.
NoButton(s, e) ==
    /\ pc = "inputs"
    /\ Widgets(s, e, FALSE)
    /\ ~StartAfterEnd(s, e)
    /\ start_date' = s
    /\ end_date' = e
    /\ shown' = TRUE
    /\ pc' = "rerun"
    /\ UNCHANGED <<Tables, Caches, Range, Frames, halted, button, queries, message,
                   chart, raw>>

\* Lines 109-199 on the frame d.
Render(d, s, e) ==
    LET h == Handler(d, s, e)
    IN  /\ start_date' = s
        /\ end_date' = e
        /\ shown' = TRUE
        /\ button' = TRUE
        /\ data' = d
        /\ message' = h.message
        /\ filtered_data' = h.filtered_data
        /\ df_plot' = h.df_plot
        /\ df_pivot' = h.df_pivot
        /\ chart' = h.chart
        /\ raw' = h.raw
        /\ pc' = "rerun"

\* The button handler, run_query answered by an entry younger than ttl=600.
GenerateCached(s, e) ==
    /\ pc = "inputs"
    /\ Widgets(s, e, TRUE)
    /\ ~StartAfterEnd(s, e)
    /\ queryCache[<<s, e>>] # NoEntry
    /\ Render(queryCache[<<s, e>>].df, s, e)
    /\ UNCHANGED <<Tables, Caches, Range, halted, queries>>

\* The button handler, run_query finding no entry, or one older than ttl=600,
\* and executing the aligned query.
GenerateQuery(s, e) ==
    /\ pc = "inputs"
    /\ Widgets(s, e, TRUE)
    /\ ~StartAfterEnd(s, e)
    /\ \E d \in AlignedResults(s, e) :
          /\ queryCache' = [queryCache EXCEPT ![<<s, e>>] = [cached |-> TRUE, df |-> d]]
          /\ Render(d, s, e)
    /\ queries' = queries \cup {"aligned"}
    /\ UNCHANGED <<Tables, rangeCache, Range, halted>>

Next ==
    \/ GetMinMaxDateCached
    \/ GetMinMaxDateQuery
    \/ GetMinMaxDateRaises
    \/ \E s \in Dates, e \in Dates : ValidationHalt(s, e)
    \/ \E s \in Dates, e \in Dates : NoButton(s, e)
    \/ \E s \in Dates, e \in Dates : GenerateCached(s, e)
    \/ \E s \in Dates, e \in Dates : GenerateQuery(s, e)

Spec == Init /\ [][Next]_vars

-----------------------------------------------------------------------------
(* Properties *)

ToleranceTicks == Tolerance * TicksPerSecond

Distance(a, b) == Abs(a - b)

Warnings == {"No data found", "No data available"}

\* The handler of a finished run has run.
Generated == pc = "rerun" /\ button

\* C1: every row the aligned query returns has fill_time and binance_time at
\* most 1800 seconds apart, the bound included.
C1_WithinTolerance ==
    \A r \in data : Distance(r.fill_time, r.binance_time) <= ToleranceTicks

\* C2: no baseline observation of the window within 1800 seconds of a row's
\* fill_time is strictly closer to it than the row's binance_time.
C2_NearestBaseline ==
    \A r \in data :
        \A b \in binance_data(start_date, end_date) :
            Distance(r.fill_time, b.time) <= ToleranceTicks
                => Distance(r.fill_time, r.binance_time) <= Distance(r.fill_time, b.time)

\* C3: every comparison observation of the window has exactly one result row
\* for its (platform, fill_time) when a baseline observation of the window is
\* within 1800 seconds of it, and none otherwise.  The seconds are counted
\* whole, as the join counts them.
C3_OneRowPerObservation ==
    Generated =>
        \A cd \in comparison_data(start_date, end_date) :
            Cardinality({r \in data : r.platform = cd.platform
                                      /\ r.fill_time = cd.fill_time})
              = IF \E bd \in binance_data(start_date, end_date) :
                       Abs(TIMESTAMP_DIFF(cd.fill_time, bd.time)) <= Tolerance
                THEN 1 ELSE 0

\* A finished run whose start_date is after its end_date.
Invalid == pc = "rerun" /\ start_date # NULL /\ start_date > end_date

\* C4: a run with start_date > end_date reports the validation error and has
\* issued no warehouse query, neither the range discovery nor the aligned one.
C4_NoQueryBeforeHalt ==
    Invalid => message = "Start date must be before end date" /\ queries = {}

\* C4, amended: a run with start_date > end_date reports the validation error,
\* renders nothing and has not issued the aligned query; the range discovery
\* is the only query it may have issued.
C4_NoAlignedQueryBeforeHalt ==
    Invalid =>
        /\ message = "Start date must be before end date"
        /\ queries \subseteq {"range"}
        /\ ~button /\ ~chart /\ ~raw

C4_Witness ==
    /\ Invalid
    /\ message = "Start date must be before end date"
    /\ queries = {"range"}

\* C5: a run whose result is empty warns and renders neither chart nor raw
\* data, and a run after such a halt renders its chart when its own result is
\* not empty.
C5_HaltThenRender ==
    /\ message \in Warnings => ~chart /\ ~raw /\ (data = {} \/ filtered_data = {})
    /\ Generated /\ (data = {} \/ filtered_data = {}) => message \in Warnings
    /\ halted /\ Generated /\ filtered_data # {} => chart

\* C6: the tidy rows are twice the aligned rows that have no missing field.
C6_TidyCount ==
    Generated =>
        Cardinality(df_plot) = 2 * Cardinality({r \in filtered_data : NoNull(r)})

\* C6, amended: the tidy rows are the aligned rows with a platform and a
\* wbtc_price, plus the aligned rows with a wbtc_price_from_binance: each half
\* of an aligned row is kept or dropped on its own.
C6_TidyCountPerHalf ==
    Generated =>
        /\ Cardinality(df_plot)
             = Cardinality({r \in filtered_data :
                              r.platform # NULL_PLATFORM /\ r.wbtc_price # NULL})
               + Cardinality({r \in filtered_data : r.wbtc_price_from_binance # NULL})
        /\ \A x \in df_plot :
              /\ x.index[2] \in filtered_data
              /\ x.time = x.index[2].fill_time
              /\ \/ x.platform = x.index[2].platform /\ x.price = x.index[2].wbtc_price
                 \/ x.platform = "Binance"
                      /\ x.price = x.index[2].wbtc_price_from_binance

C6_Witness ==
    /\ Generated
    /\ \E r \in filtered_data : r.wbtc_price = NULL /\ r.wbtc_price_from_binance # NULL
    /\ \E r \in filtered_data : NoNull(r)
    /\ Cardinality(df_plot) = 3

\* C7: an execution of the aligned query returns the rows an earlier
\* execution for the same dates returned.
C7_Deterministic ==
    [][\A k \in Keys : queryCache[k] # NoEntry => queryCache'[k] = queryCache[k]]_vars

\* C8: the rows aligned come from the non-baseline comparison observations and
\* the baseline observations of [start_date 00:00:00, end_date 00:00:00].
C8_CandidateSets ==
    \A r \in data :
        /\ r.platform # "Binance"
        /\ TIMESTAMP(start_date) <= r.fill_time /\ r.fill_time <= TIMESTAMP(end_date)
        /\ TIMESTAMP(start_date) <= r.binance_time
        /\ r.binance_time <= TIMESTAMP(end_date)

\* C9: when no comparison row is labelled 'Binance', the tidy table has at
\* most one row per (time, platform), the pivot does not raise and the wide
\* table has one row per distinct time.
C9_PivotKeysUnique ==
    Generated /\ (\A c \in comparison : c.platform # "Binance") =>
        /\ \A x \in df_plot, y \in df_plot :
              x.time = y.time /\ x.platform = y.platform => x = y
        /\ message # "ValueError"
        /\ Cardinality(df_pivot) = Cardinality({x.time : x \in df_plot})
        /\ \A v \in df_pivot, w \in df_pivot : v.time = w.time => v = w

C9_Witness ==
    /\ Generated /\ chart
    /\ \A c \in comparison : c.platform # "Binance"
    /\ \E c \in comparison, d \in comparison :
          c.platform # d.platform /\ c.fill_time = d.fill_time
          /\ \E r \in filtered_data : r.fill_time = c.fill_time
    /\ Cardinality(df_plot) = 2
    /\ Cardinality(df_pivot) = 1

\* C10: the date mask removes no row of the query's result, and the second
\* warning is never given.
C10_MaskKeepsAll ==
    /\ Generated => filtered_data = data
    /\ message # "No data available"

C10_Witness ==
    /\ Generated
    /\ start_date < end_date
    /\ \E r \in data : r.fill_time = TIMESTAMP(end_date)
    /\ \E r \in data : r.fill_time = TIMESTAMP(start_date)
    /\ filtered_data = data

=============================================================================
